---------------------------- MODULE Spec2Model ----------------------------
(***************************************************************************)
(* A model of utils/pdfsig.cc: the pdfsig command line tool.  One run of   *)
(* main() is a behaviour; the calls into the document engine and into the  *)
(* NSS certificate store are steps whose results are chosen from small     *)
(* sets.  History variables (out, signCalls, written, validated, ...)      *)
(* record what a run has printed and which engine operations it invoked.   *)
(***************************************************************************)
EXTENDS Integers, Sequences, FiniteSets, TLC

\* ------------------------------------------------------------- bounds
\* argc after parseArgs has removed the options: 1 .. MaxArgc
MaxArgc == 3
\* the values given to -sign: -1 .. MaxSignNumber
MaxSignNumber == 3
\* signature fields of a document: 0 .. MaxFields
MaxFields == 2
\* how often the store may invoke the password callback in one call
MaxAsks == 2
\* certificates in the store: 0 .. MaxCerts
MaxCerts == 1
\* values std::random_device may hand to the generator: 0 .. MaxSeed
MaxSeed == 15
\* widgets of a signature field: 0 .. MaxWidgets
MaxWidgets == 2

\* ---------------------------------------------------- program constants
\* std::uniform_int_distribution<> distrib(1, 15)
DistribLo == 1
DistribHi == 15
\* for (int i = 0; i < 32; ++i)
FieldNameLength == 32
\* value < 10 ? 48 + value : 65 + (value - 10)
DigitLimit == 10
AsciiZero == 48
AsciiA == 65

\* argv after option removal; argv[1] is ArgvAll[2] and so on (TLA+ counts
\* from 1).  A run with argc = n sees the first n entries.
ArgvAll == <<"pdfsig", "in.pdf", "out.pdf", "extra1", "extra2", "extra3">>

Argv(k) == ArgvAll[k + 1]

VARIABLES
    pc,                     \* position of main()
    ok,                     \* result of parseArgs
    argc,
    printVersion, printHelp, listNicknames,
    dontVerifyCert, dumpSignatures, etsiCAdESdetached,
    addNewSignature, signatureNumber,
    certNickname, digestName, nssPassword,
    newSignatureFieldName,  \* a sequence of character codes
    generated,              \* whether main generated the field name
    docOpened,              \* number of createPDFDoc calls performed
    docOk,                  \* doc->isOk()
    signatures,             \* doc->getSignatureFields()
    firstTime,              \* the callback's static bool
    passwordNeeded, wrongPassword,
    asks,                   \* callback invocations of the current call
    passwordsHanded,        \* how often the callback returned the password
    storeList,              \* what SignatureHandler returned
    vCerts,                 \* what getAvailableSigningCertificates returned
    getCertsError,          \* "unset" until the call writes *error, then "true" or "false"
    certsCalls,             \* completed getAvailableSigningCertificates calls
    i,                      \* loop index of the dump and the report loop
    sigInfos,               \* validation status of each validated field
    written,                \* indices whose signature file was written
    signCalls,              \* engine signing operations invoked
    out,                    \* lines printed, in order
    exitStatus              \* -1 while main runs

flagVars == <<ok, argc, printVersion, printHelp, listNicknames, dontVerifyCert,
              dumpSignatures, etsiCAdESdetached, addNewSignature,
              signatureNumber, certNickname, digestName, nssPassword>>
docVars == <<docOpened, docOk, signatures>>
storeVars == <<firstTime, passwordNeeded, wrongPassword, asks, passwordsHanded,
               storeList, vCerts, getCertsError, certsCalls>>
loopVars == <<i, sigInfos, written>>

vars == <<pc, flagVars, newSignatureFieldName, generated, docVars, storeVars, loopVars,
          signCalls, out, exitStatus>>

\* ------------------------------------------------------------ printing
Line(stream, msg, text, num) ==
    [stream |-> stream, msg |-> msg, text |-> text, num |-> num]

\* print_version_usage(usage)
print_version_usage(usage) ==
    IF usage THEN <<Line("stderr", "version", "", 0), Line("stderr", "usage", "", 0)>>
             ELSE <<Line("stderr", "version", "", 0)>>

Printed(msg) == \E k \in 1..Len(out) : out[k].msg = msg

\* return <status> from main, having printed `lines`
Return(status, lines) ==
    /\ pc' = "done"
    /\ exitStatus' = status
    /\ out' = out \o lines

\* getReadableSigState
SigStatuses == {"SIGNATURE_VALID", "SIGNATURE_INVALID", "SIGNATURE_DIGEST_MISMATCH",
                "SIGNATURE_DECODING_ERROR", "SIGNATURE_NOT_VERIFIED",
                "SIGNATURE_GENERIC_ERROR"}

getReadableSigState(sig_vs) ==
    CASE sig_vs = "SIGNATURE_VALID" -> "Signature is Valid."
      [] sig_vs = "SIGNATURE_INVALID" -> "Signature is Invalid."
      [] sig_vs = "SIGNATURE_DIGEST_MISMATCH" -> "Digest Mismatch."
      [] sig_vs = "SIGNATURE_DECODING_ERROR" -> "Document isn't signed or corrupted data."
      [] sig_vs = "SIGNATURE_NOT_VERIFIED" -> "Signature has not yet been verified."
      [] OTHER -> "Unknown Validation Failure."

\* getReadableCertState
CertStatuses == {"CERTIFICATE_TRUSTED", "CERTIFICATE_UNTRUSTED_ISSUER",
                 "CERTIFICATE_UNKNOWN_ISSUER", "CERTIFICATE_REVOKED",
                 "CERTIFICATE_EXPIRED", "CERTIFICATE_NOT_VERIFIED",
                 "CERTIFICATE_GENERIC_ERROR"}

getReadableCertState(cert_vs) ==
    CASE cert_vs = "CERTIFICATE_TRUSTED" -> "Certificate is Trusted."
      [] cert_vs = "CERTIFICATE_UNTRUSTED_ISSUER" -> "Certificate issuer isn't Trusted."
      [] cert_vs = "CERTIFICATE_UNKNOWN_ISSUER" -> "Certificate issuer is unknown."
      [] cert_vs = "CERTIFICATE_REVOKED" -> "Certificate has been Revoked."
      [] cert_vs = "CERTIFICATE_EXPIRED" -> "Certificate has Expired"
      [] cert_vs = "CERTIFICATE_NOT_VERIFIED" -> "Certificate has not yet been verified."
      [] OTHER -> "Unknown issue with Certificate or corrupted data."

\* ---------------------------------------------------------------- Init
\* The file-scope statics as initialised, before main() runs.
Init ==
    /\ pc = "parseArgs"
    /\ ok = FALSE
    /\ argc = 1
    /\ printVersion = FALSE /\ printHelp = FALSE /\ listNicknames = FALSE
    /\ dontVerifyCert = FALSE /\ dumpSignatures = FALSE
    /\ etsiCAdESdetached = FALSE
    /\ addNewSignature = FALSE /\ signatureNumber = 0
    /\ certNickname = "" /\ digestName = "SHA256" /\ nssPassword = ""
    /\ newSignatureFieldName = <<>>
    /\ generated = FALSE
    /\ docOpened = 0 /\ docOk = FALSE /\ signatures = <<>>
    /\ firstTime = TRUE
    /\ passwordNeeded = FALSE /\ wrongPassword = FALSE
    /\ asks = 0 /\ passwordsHanded = 0
    /\ storeList = <<>> /\ vCerts = <<>>
    /\ getCertsError = "unset" /\ certsCalls = 0
    /\ i = 0 /\ sigInfos = <<>> /\ written = <<>>
    /\ signCalls = <<>>
    /\ out = <<>>
    /\ exitStatus = -1

\* ------------------------------------------------------- main: options
NickNames == {"", "signer"}
DigestNames == {"SHA256", "SHA512"}
NssPasswords == {"", "secret"}
\* -new-signature-field-name: absent, or the one-character name "f"
SuppliedFieldNames == {<<>>, <<102>>}

\* a run that will read the signing options: -list-nicks, -add-signature
\* or -sign N with N > 0
SigningRequested == listNicknames \/ addNewSignature \/ signatureNumber > 0

\* the signing options as initialised (the option was not given)
SigningOptionsDefault ==
    /\ certNickname = "" /\ digestName = "SHA256" /\ nssPassword = ""
    /\ ~etsiCAdESdetached /\ newSignatureFieldName = <<>>

\* const bool ok = parseArgs(argDesc, &argc, argv); if (!ok) return 99.
\* The command lines enumerated: every combination of the options, except
\* that the signing options (-nick, -digest, -nss-pwd, -etsi,
\* -new-signature-field-name) are varied only in the runs that read them.
ParseArgs ==
    /\ pc = "parseArgs"
    /\ \/ /\ ok' = FALSE
          /\ Return(99, print_version_usage(TRUE))
          /\ UNCHANGED <<argc, printVersion, printHelp, listNicknames,
                         dontVerifyCert, dumpSignatures, etsiCAdESdetached,
                         addNewSignature, signatureNumber, certNickname,
                         digestName, nssPassword, newSignatureFieldName>>
       \/ /\ ok' = TRUE
          /\ argc' \in 1..MaxArgc
          /\ printVersion' \in BOOLEAN
          /\ printHelp' \in BOOLEAN
          /\ listNicknames' \in BOOLEAN
          /\ dontVerifyCert' \in BOOLEAN
          /\ dumpSignatures' \in BOOLEAN
          /\ etsiCAdESdetached' \in BOOLEAN
          /\ addNewSignature' \in BOOLEAN
          /\ signatureNumber' \in (-1)..MaxSignNumber
          /\ certNickname' \in NickNames
          /\ digestName' \in DigestNames
          /\ nssPassword' \in NssPasswords
          /\ newSignatureFieldName' \in SuppliedFieldNames
          /\ SigningRequested' \/ SigningOptionsDefault'
          /\ pc' = "checkVersion"
          /\ UNCHANGED <<out, exitStatus>>
    /\ UNCHANGED <<generated, docVars, storeVars, loopVars, signCalls>>

\* if (printVersion) return 0; if (printHelp) return 0
CheckVersionHelp ==
    /\ pc = "checkVersion"
    /\ IF printVersion
         THEN Return(0, print_version_usage(FALSE))
         ELSE IF printHelp
                THEN Return(0, print_version_usage(TRUE))
                ELSE /\ pc' = "checkList"
                     /\ UNCHANGED <<out, exitStatus>>
    /\ UNCHANGED <<flagVars, newSignatureFieldName, generated, docVars, storeVars,
                   loopVars, signCalls>>

\* --------------------------------- getAvailableSigningCertificates
\* The call is entered from three places of main; where it returns to is
\* fixed by the mode of the run.
CertsReturnSite ==
    IF listNicknames THEN "listNicks"
    ELSE IF addNewSignature THEN "addSigCerts" ELSE "signFieldCerts"

\* bool wrongPassword = false; bool passwordNeeded = false;
\* setNSSPasswordCallback(passwordCallback); the store is then running
EnterGetCerts ==
    /\ wrongPassword' = FALSE
    /\ passwordNeeded' = FALSE
    /\ asks' = 0
    /\ pc' = "store"
    /\ UNCHANGED <<firstTime, passwordsHanded, storeList, vCerts,
                   getCertsError, certsCalls>>

\* a variant of CallbackRefuses: the callback without its firstTime test,
\* handing out the password every time it is asked
CallbackRefuses_NoFirstTime == FALSE

\* the lambda's test of its static: if (!firstTime) { wrongPassword = true; ... }
CallbackRefuses == ~firstTime

\* the lambda passwordCallback, invoked by the store
PasswordCallback ==
    /\ pc = "store"
    /\ asks < MaxAsks
    /\ asks' = asks + 1
    /\ IF CallbackRefuses
         THEN /\ wrongPassword' = TRUE
              /\ UNCHANGED <<firstTime, passwordNeeded, passwordsHanded>>
         ELSE /\ firstTime' = FALSE
              /\ IF nssPassword # ""
                   THEN /\ passwordsHanded' = passwordsHanded + 1
                        /\ UNCHANGED <<passwordNeeded, wrongPassword>>
                   ELSE /\ passwordNeeded' = TRUE
                        /\ UNCHANGED <<wrongPassword, passwordsHanded>>
    /\ UNCHANGED <<pc, flagVars, newSignatureFieldName, generated, docVars, storeList,
                   vCerts, getCertsError, certsCalls, loopVars, signCalls,
                   out, exitStatus>>

\* the lists SignatureHandler::getAvailableSigningCertificates may return:
\* nicknames 1 .. n for n in 0 .. MaxCerts
CertLists == {[k \in 1..n |-> k] : n \in 0..MaxCerts}

\* SignatureHandler::getAvailableSigningCertificates() returns `list`; the
\* rest of the function decides *error, the message and the result
GetCertsReturn ==
    /\ pc = "store"
    /\ \E list \in CertLists :
          /\ storeList' = list
          /\ IF passwordNeeded
               THEN /\ getCertsError' = "true"
                    /\ out' = out \o <<Line("stdout", "PasswordNeeded", "", 0)>>
                    /\ vCerts' = <<>>
               ELSE IF wrongPassword
                 THEN /\ getCertsError' = "true"
                      /\ out' = out \o <<Line("stdout", "PasswordNotAccepted", "", 0)>>
                      /\ vCerts' = <<>>
                 ELSE /\ getCertsError' = "false"
                      /\ out' = out
                      /\ vCerts' = list
    /\ certsCalls' = certsCalls + 1
    /\ pc' = CertsReturnSite
    /\ UNCHANGED <<flagVars, newSignatureFieldName, generated, docVars, firstTime,
                   passwordNeeded, wrongPassword, asks, passwordsHanded,
                   loopVars, signCalls, exitStatus>>

\* ---------------------------------------------------- main: -list-nicks
\* if (listNicknames) { ... getAvailableSigningCertificates(&getCertsError)
CheckListNicknames ==
    /\ pc = "checkList"
    /\ IF listNicknames
         THEN EnterGetCerts
         ELSE /\ pc' = "checkArgc"
              /\ UNCHANGED storeVars
    /\ UNCHANGED <<flagVars, newSignatureFieldName, generated, docVars, loopVars,
                   signCalls, out, exitStatus>>

\* if (getCertsError) return 2; else print the nicknames; return 0
ListNicknamesReturn ==
    /\ pc = "listNicks"
    /\ IF getCertsError = "true"
         THEN Return(2, <<>>)
         ELSE IF vCerts = <<>>
                THEN Return(0, <<Line("stdout", "NoCertificates", "", 0)>>)
                ELSE Return(0, <<Line("stdout", "NicknamesAvailable", "", 0)>>
                                 \o [k \in 1..Len(vCerts) |->
                                        Line("stdout", "Nickname", "", vCerts[k])])
    /\ UNCHANGED <<flagVars, newSignatureFieldName, generated, docVars, storeVars,
                   loopVars, signCalls>>

\* --------------------------------------------- main: opening the document
\* if (argc < 2) return 99
CheckArgc ==
    /\ pc = "checkArgc"
    /\ IF argc < 2
         THEN Return(99, print_version_usage(TRUE))
         ELSE /\ pc' = "openDoc"
              /\ UNCHANGED <<out, exitStatus>>
    /\ UNCHANGED <<flagVars, newSignatureFieldName, generated, docVars, storeVars,
                   loopVars, signCalls>>

\* doc(PDFDocFactory().createPDFDoc(*fileName, ...)); if (!doc->isOk()) return 1
CreatePDFDoc ==
    /\ pc = "openDoc"
    /\ docOpened' = docOpened + 1
    /\ \E isOk \in BOOLEAN :
          /\ docOk' = isOk
          /\ IF ~isOk
               THEN Return(1, <<>>)
               ELSE /\ pc' = "checkIncompatible"
                    /\ UNCHANGED <<out, exitStatus>>
    /\ UNCHANGED <<flagVars, newSignatureFieldName, generated, signatures, storeVars,
                   loopVars, signCalls>>

\* a variant of IncompatibleOptions: the test on -sign off by one
IncompatibleOptions_OffByOne == addNewSignature /\ signatureNumber > 1

\* addNewSignature && signatureNumber > 0
IncompatibleOptions == addNewSignature /\ signatureNumber > 0

\* if (addNewSignature && signatureNumber > 0) return 99; if (addNewSignature) ...
CheckIncompatible ==
    /\ pc = "checkIncompatible"
    /\ IF IncompatibleOptions
         THEN Return(99, print_version_usage(TRUE))
         ELSE /\ pc' = IF addNewSignature THEN "addSig" ELSE "getFields"
              /\ UNCHANGED <<out, exitStatus>>
    /\ UNCHANGED <<flagVars, newSignatureFieldName, generated, docVars, storeVars,
                   loopVars, signCalls>>

\* ------------------------------------------------ main: -add-signature
\* a variant of OutputMissing: the test of main's first argc check repeated
OutputMissing_InputTest == argc < 2

\* if (argc == 2): no output file name was given
OutputMissing == argc = 2

\* a variant of CertsFailed: the result of the store call is ignored
CertsFailed_Ignored == FALSE

\* if (getCertsError) return 2
CertsFailed == getCertsError = "true"

\* the checks of -add-signature up to the certificate-store call
AddSigPrecheck ==
    /\ pc = "addSig"
    /\ \E page1 \in BOOLEAN :
          IF OutputMissing
            THEN /\ Return(2, <<Line("stderr", "OutputFilenameNeeded", "", 0)>>)
                 /\ UNCHANGED storeVars
          ELSE IF certNickname = ""
            THEN /\ Return(2, <<Line("stdout", "NicknameNeeded", "", 0)>>)
                 /\ UNCHANGED storeVars
          ELSE IF etsiCAdESdetached
            THEN /\ Return(2, <<Line("stdout", "EtsiNotSupported", "", 0),
                                Line("stdout", "FileBugReport", "", 0)>>)
                 /\ UNCHANGED storeVars
          ELSE IF digestName # "SHA256"
            THEN /\ Return(2, <<Line("stdout", "OnlySHA256", "", 0),
                                Line("stdout", "FileBugReport", "", 0)>>)
                 /\ UNCHANGED storeVars
          ELSE IF ~page1
            THEN /\ Return(2, <<Line("stdout", "ErrorFirstPage", "", 0)>>)
                 /\ UNCHANGED storeVars
          ELSE /\ EnterGetCerts
               /\ UNCHANGED <<out, exitStatus>>
    /\ UNCHANGED <<flagVars, newSignatureFieldName, generated, docVars, loopVars, signCalls>>

\* the state of std::mt19937 after one draw (a small full-period generator
\* stands for the Mersenne twister; only the range of distrib matters here)
mt19937_next(gen) == (gen * 5 + 3) % 16

\* std::uniform_int_distribution<> distrib(1, 15); distrib(gen)
distrib(gen) == DistribLo + (gen % (DistribHi - DistribLo + 1))

\* value < 10 ? 48 + value : 65 + (value - 10)
HexChar(value) ==
    IF value < DigitLimit THEN AsciiZero + value ELSE AsciiA + (value - DigitLimit)

RECURSIVE AppendRandom(_, _, _)
\* for (int i = 0; i < 32; ++i) newSignatureFieldName.append(...)
AppendRandom(name, gen, n) ==
    IF n = 0 THEN name
    ELSE AppendRandom(Append(name, HexChar(distrib(gen))), mt19937_next(gen), n - 1)

\* std::random_device rd; std::mt19937 gen(rd()); the loop
RandomFieldName(rd) == AppendRandom(<<>>, rd % 16, FieldNameLength)

\* if (getCertsError) return 2; the field name is generated when none was given
AddSigAfterCerts ==
    /\ pc = "addSigCerts"
    /\ IF CertsFailed
         THEN /\ Return(2, <<>>)
              /\ UNCHANGED <<newSignatureFieldName, generated>>
         ELSE /\ IF Len(newSignatureFieldName) = 0
                   THEN /\ \E rd \in 0..MaxSeed :
                              newSignatureFieldName' = RandomFieldName(rd)
                        /\ generated' = TRUE
                   ELSE UNCHANGED <<newSignatureFieldName, generated>>
              /\ pc' = "addSigSign"
              /\ UNCHANGED <<out, exitStatus>>
    /\ UNCHANGED <<flagVars, docVars, storeVars, loopVars, signCalls>>

SignCall(op, name, success) ==
    [op |-> op, saveFilename |-> Argv(2), nick |-> certNickname,
     digest |-> digestName, etsi |-> etsiCAdESdetached, name |-> name,
     success |-> success]

\* a variant of SignStatus: a failed signing reported as a precondition error
SignStatus_FailureAsTwo(success) == IF success THEN 0 ELSE 2

\* return success ? 0 : 3
SignStatus(success) == IF success THEN 0 ELSE 3

\* const bool success = doc->sign(argv[2], ...); return success ? 0 : 3
DocSign ==
    /\ pc = "addSigSign"
    /\ \E success \in BOOLEAN :
          /\ signCalls' = Append(signCalls,
                                 SignCall("PDFDoc::sign", newSignatureFieldName, success))
          /\ Return(SignStatus(success), <<>>)
    /\ UNCHANGED <<flagVars, newSignatureFieldName, generated, docVars, storeVars, loopVars>>

\* ------------------------------------------------------ main: -sign N
\* a signature field: whether getSignature() and getCheckedSignature()
\* return content
Fields == [sig : BOOLEAN, checked : BOOLEAN]

FieldLists == UNION {[1..n -> Fields] : n \in 0..MaxFields}

\* const unsigned int sigCount = signatures.size()
sigCount == Len(signatures)

\* const std::vector<FormFieldSignature *> signatures = doc->getSignatureFields()
GetSignatureFields ==
    /\ pc = "getFields"
    /\ signatures' \in FieldLists
    /\ pc' = IF signatureNumber > 0 THEN "signField" ELSE "report"
    /\ UNCHANGED <<flagVars, newSignatureFieldName, generated, docOpened, docOk, storeVars,
                   loopVars, signCalls, out, exitStatus>>

\* a variant of NoSuchSignatureLine: the message names the output file
NoSuchSignatureLine_OutputFile ==
    Line("stdout", "NoSuchSignature", Argv(2), signatureNumber)

\* printf("File '%s' does not contain a signature with number %d\n", ...)
NoSuchSignatureLine ==
    Line("stdout", "NoSuchSignature", Argv(1), signatureNumber)

\* the checks of -sign up to the certificate-store call
SignFieldPrecheck ==
    /\ pc = "signField"
    /\ IF OutputMissing
         THEN /\ Return(2, <<Line("stderr", "OutputFilenameNeeded", "", 0)>>)
              /\ UNCHANGED storeVars
       ELSE IF signatureNumber > sigCount
         THEN /\ Return(2, <<NoSuchSignatureLine>>)
              /\ UNCHANGED storeVars
       ELSE IF certNickname = ""
         THEN /\ Return(2, <<Line("stdout", "NicknameNeeded", "", 0)>>)
              /\ UNCHANGED storeVars
       ELSE /\ EnterGetCerts
            /\ UNCHANGED <<out, exitStatus>>
    /\ UNCHANGED <<flagVars, newSignatureFieldName, generated, docVars, loopVars, signCalls>>

\* a variant of AlreadySigned: the content of the field is not looked at
AlreadySigned_Unchecked(ffs) == FALSE

\* GooString *sig = ffs->getCheckedSignature(&file_size); if (sig) ...
AlreadySigned(ffs) == ffs.checked

\* if (getCertsError) return 2; if (sig) return 2; if (getNumWidgets() != 1) return 2
SignFieldAfterCerts ==
    /\ pc = "signFieldCerts"
    /\ \E numWidgets \in 0..MaxWidgets :
          IF CertsFailed
            THEN Return(2, <<>>)
          ELSE IF AlreadySigned(signatures[signatureNumber])
            THEN Return(2, <<Line("stdout", "AlreadySigned", "", signatureNumber)>>)
          ELSE IF numWidgets # 1
            THEN Return(2, <<Line("stdout", "UnexpectedWidgets", "", numWidgets)>>)
          ELSE /\ pc' = "signDocument"
               /\ UNCHANGED <<out, exitStatus>>
    /\ UNCHANGED <<flagVars, newSignatureFieldName, generated, docVars, storeVars, loopVars,
                   signCalls>>

\* const bool success = fws->signDocument(argv[2], ...); return success ? 0 : 3
SignDocument ==
    /\ pc = "signDocument"
    /\ \E success \in BOOLEAN :
          /\ signCalls' = Append(signCalls,
                                 SignCall("FormWidgetSignature::signDocument", <<>>, success))
          /\ Return(SignStatus(success), <<>>)
    /\ UNCHANGED <<flagVars, newSignatureFieldName, generated, docVars, storeVars, loopVars>>

\* ------------------------------------------------ main: dump and report
\* a variant of HasSignatures: the test admits an empty list
HasSignatures_OrNone == sigCount >= 0

\* if (sigCount >= 1)
HasSignatures == sigCount >= 1

\* if (argc > 2) return 99; then the branch on sigCount and -dump
ReportPrecheck ==
    /\ pc = "report"
    /\ IF argc > 2
         THEN Return(99, print_version_usage(TRUE))
       ELSE IF HasSignatures
         THEN /\ pc' = IF dumpSignatures THEN "dump" ELSE "validate"
              /\ out' = out \o <<IF dumpSignatures
                                   THEN Line("stdout", "DumpingSignatures", "", sigCount)
                                   ELSE Line("stdout", "DigitalSignatureInfo", Argv(1), 0)>>
              /\ UNCHANGED exitStatus
       ELSE Return(2, <<Line("stdout", "NoSignatures", Argv(1), 0)>>)
    /\ i' = 0
    /\ UNCHANGED <<flagVars, newSignatureFieldName, generated, docVars, storeVars, sigInfos,
                   written, signCalls>>

\* a variant of DumpFails: a field without content is written all the same
DumpFails_Never(s) == FALSE

\* dumpSignature: if (!signature) { printf("Cannot dump ..."); return false; }
DumpFails(s) == ~s.sig

\* one iteration of the dump loop: dumpSignature(i, ...) writes the file of
\* field i, or fails and main returns 3
DumpSignature ==
    /\ pc = "dump"
    /\ i < sigCount
    /\ IF DumpFails(signatures[i + 1])
         THEN /\ Return(3, <<Line("stdout", "CannotDump", "", i)>>)
              /\ UNCHANGED <<i, written>>
         ELSE /\ written' = Append(written, i)
              /\ i' = i + 1
              /\ out' = out \o <<Line("stdout", "SignatureDumped", "", i)>>
              /\ UNCHANGED <<pc, exitStatus>>
    /\ UNCHANGED <<flagVars, newSignatureFieldName, generated, docVars, storeVars,
                   sigInfos, signCalls>>

\* the dump loop ends (i < sigCount fails): return 0
DumpDone ==
    /\ pc = "dump"
    /\ ~(i < sigCount)
    /\ Return(0, <<>>)
    /\ UNCHANGED <<flagVars, newSignatureFieldName, generated, docVars, storeVars,
                   loopVars, signCalls>>

\* a variant of SkipCertificateLine: && in the place of ||
SkipCertificateLine_And(sig_vs) == sig_vs # "SIGNATURE_VALID" /\ dontVerifyCert

\* if (sig_info->getSignatureValStatus() != SIGNATURE_VALID || dontVerifyCert) continue
SkipCertificateLine(sig_vs) == sig_vs # "SIGNATURE_VALID" \/ dontVerifyCert

\* the lines one iteration of the report loop prints for field i (0-based);
\* each carries the field's number i + 1
ReportLines(sig_vs, cert_vs) ==
    <<Line("stdout", "SignatureHeader", "", i + 1),
      Line("stdout", "SignatureValidation", getReadableSigState(sig_vs), i + 1)>>
    \o IF SkipCertificateLine(sig_vs)
         THEN <<>>
         ELSE <<Line("stdout", "CertificateValidation", getReadableCertState(cert_vs), i + 1)>>

\* one iteration of the report loop: validateSignature and the printing
ValidateSignature ==
    /\ pc = "validate"
    /\ i < sigCount
    /\ \E sig_vs \in SigStatuses, cert_vs \in CertStatuses :
          /\ sigInfos' = Append(sigInfos, sig_vs)
          /\ out' = out \o ReportLines(sig_vs, cert_vs)
    /\ i' = i + 1
    /\ UNCHANGED <<pc, exitStatus, flagVars, newSignatureFieldName, generated,
                   docVars, storeVars, written, signCalls>>

\* the report loop ends (i < sigCount fails): return 0
ReportDone ==
    /\ pc = "validate"
    /\ ~(i < sigCount)
    /\ Return(0, <<>>)
    /\ UNCHANGED <<flagVars, newSignatureFieldName, generated, docVars, storeVars,
                   loopVars, signCalls>>

\* ------------------------------------------------------ specification
Next ==
    \/ ParseArgs
    \/ CheckVersionHelp
    \/ CheckListNicknames
    \/ PasswordCallback
    \/ GetCertsReturn
    \/ ListNicknamesReturn
    \/ CheckArgc
    \/ CreatePDFDoc
    \/ CheckIncompatible
    \/ AddSigPrecheck
    \/ AddSigAfterCerts
    \/ DocSign
    \/ GetSignatureFields
    \/ SignFieldPrecheck
    \/ SignFieldAfterCerts
    \/ SignDocument
    \/ ReportPrecheck
    \/ DumpSignature
    \/ DumpDone
    \/ ValidateSignature
    \/ ReportDone

Spec == Init /\ [][Next]_vars

\* ------------------------------------------------------------- claims
Done == pc = "done"

\* argument parsing succeeded and none of -v, -h, -list-nicks is set
NoEarlyMode == ok /\ ~printVersion /\ ~printHelp /\ ~listNicknames

HasLine(l) == \E k \in 1..Len(out) : out[k] = l

SigningOps == {signCalls[k].op : k \in 1..Len(signCalls)}

\* -add-signature together with -sign N, N > 0
BothSigningModes == NoEarlyMode /\ addNewSignature /\ signatureNumber > 0

\* C1 as stated: a run with both -add-signature and -sign N (N > 0) exits
\* with status 99 and never performs the document-open operation.
C1_Original ==
    BothSigningModes => /\ docOpened = 0
                        /\ Done => exitStatus = 99

\* C1 as amended: such a run exits with 99 without opening anything when no
\* input file is given; otherwise it performs createPDFDoc exactly once,
\* before the options are compared, and exits with 1 when the document does
\* not open and with 99 when it does.  It never queries the certificate
\* store, enumerates the fields or invokes a signing operation.
C1_Amended ==
    BothSigningModes =>
        /\ signCalls = <<>> /\ certsCalls = 0 /\ signatures = <<>>
        /\ Done => IF argc < 2
                     THEN exitStatus = 99 /\ docOpened = 0
                     ELSE /\ docOpened = 1
                          /\ exitStatus = IF docOk THEN 99 ELSE 1

C1_Witness ==
    Done /\ BothSigningModes /\ docOpened = 1 /\ docOk /\ exitStatus = 99

\* the run is in the sign-existing-field mode and the document has opened
SignFieldMode ==
    NoEarlyMode /\ ~addNewSignature /\ signatureNumber > 0 /\ docOk

\* field N exists and getCheckedSignature returns content for it
TargetAlreadySigned ==
    /\ signatureNumber <= sigCount
    /\ signatures[signatureNumber].checked

\* C2: in the sign-existing-field mode, when field N exists and already has
\* signature content, main exits with status 2 and signDocument is never
\* invoked, whatever the other options and the store's answers are.
C2_AlreadySignedRejected ==
    (SignFieldMode /\ TargetAlreadySigned) =>
        /\ signCalls = <<>>
        /\ pc # "signDocument"
        /\ Done => exitStatus = 2

C2_Witness ==
    /\ Done /\ SignFieldMode /\ TargetAlreadySigned
    /\ getCertsError = "false"
    /\ HasLine(Line("stdout", "AlreadySigned", "", signatureNumber))
    /\ exitStatus = 2

\* the message of main naming the input file and N
NoSuchSignatureExpected ==
    Line("stdout", "NoSuchSignature", ArgvAll[2], signatureNumber)

\* a finished run of the sign-existing-field mode with N beyond the fields
OrdinalTooLarge == Done /\ SignFieldMode /\ signatureNumber > sigCount

\* C3 as stated: with N greater than the number of signature fields main
\* exits with status 2 and prints the message naming N and the input file,
\* whether or not an output file name was given.
C3_Original ==
    OrdinalTooLarge => exitStatus = 2 /\ HasLine(NoSuchSignatureExpected)

\* C3 as amended: main exits with status 2 in both cases; the message
\* naming N and the input file is printed when an output file name was
\* given, and without one the only message is the request for an output
\* file name.
C3_Amended ==
    OrdinalTooLarge =>
        /\ exitStatus = 2
        /\ signCalls = <<>>
        /\ IF argc > 2
             THEN out = <<NoSuchSignatureExpected>>
             ELSE out = <<Line("stderr", "OutputFilenameNeeded", "", 0)>>

C3_Witness ==
    OrdinalTooLarge /\ argc > 2 /\ sigCount > 0 /\ HasLine(NoSuchSignatureExpected)

\* a finished run rejected because the input file is missing
InputMissingRun == Done /\ NoEarlyMode /\ argc < 2

\* a finished run of one signing mode rejected because the output file is
\* missing
OutputMissingRun ==
    /\ Done /\ NoEarlyMode /\ docOk /\ argc = 2
    /\ (addNewSignature \/ signatureNumber > 0)
    /\ ~(addNewSignature /\ signatureNumber > 0)

\* C4 as stated: every run rejected for a missing positional argument
\* exits with status 99.
C4_Original ==
    (InputMissingRun \/ OutputMissingRun) => exitStatus = 99

\* C4 as amended: a missing input file gives status 99 and the usage text;
\* a missing output file in a signing mode gives status 2 and the message
\* asking for an output file name, on stderr.
C4_Amended ==
    /\ InputMissingRun =>
          exitStatus = 99 /\ out = print_version_usage(TRUE) /\ docOpened = 0
    /\ OutputMissingRun =>
          /\ exitStatus = 2
          /\ out = <<Line("stderr", "OutputFilenameNeeded", "", 0)>>
          /\ signCalls = <<>>

C4_Witness ==
    OutputMissingRun /\ exitStatus = 2 /\ certNickname # "" /\ certsCalls = 0

\* C5: a signing operation is invoked only after a call of
\* getAvailableSigningCertificates that completed without error; when the
\* call reports an error the run exits with status 2 and invokes none.
C5_CertsBeforeSigning ==
    /\ (signCalls # <<>> \/ pc \in {"addSigSign", "signDocument"}) =>
          certsCalls >= 1 /\ getCertsError = "false"
    /\ getCertsError = "true" =>
          /\ signCalls = <<>>
          /\ pc \notin {"addSigSign", "signDocument"}
          /\ Done => exitStatus = 2

C5_Witness ==
    /\ Done /\ signCalls # <<>>
    /\ certsCalls = 1 /\ getCertsError = "false" /\ asks = 1

CertLinePrinted(n) ==
    \E k \in 1..Len(out) : out[k].msg = "CertificateValidation" /\ out[k].num = n

ValidationLinePrinted(n) ==
    \E k \in 1..Len(out) : out[k].msg = "SignatureValidation" /\ out[k].num = n

\* C6: in report mode the 'Certificate Validation' line of a field is
\* printed if and only if the field's status is SIGNATURE_VALID and -nocert
\* was not given; the loop goes on to the next field either way.
C6_CertLineIffValid ==
    /\ \A n \in 1..Len(sigInfos) :
          /\ ValidationLinePrinted(n)
          /\ CertLinePrinted(n) <=>
                (sigInfos[n] = "SIGNATURE_VALID" /\ ~dontVerifyCert)
    /\ \A n \in (Len(sigInfos) + 1)..MaxFields + 1 : ~CertLinePrinted(n)
    /\ pc = "validate" => Len(sigInfos) = i
    /\ (Done /\ sigInfos # <<>>) => Len(sigInfos) = sigCount /\ exitStatus = 0

C6_Witness ==
    /\ Done /\ ~dontVerifyCert /\ Len(sigInfos) = 2
    /\ sigInfos[1] = "SIGNATURE_DIGEST_MISMATCH" /\ sigInfos[2] = "SIGNATURE_VALID"
    /\ ~CertLinePrinted(1) /\ CertLinePrinted(2)

\* a finished report-mode run over a document without signature fields
ReportOfEmptyDocument ==
    /\ Done /\ NoEarlyMode /\ ~dumpSignatures /\ ~addNewSignature
    /\ signatureNumber <= 0 /\ docOk /\ sigCount = 0

NoSignaturesExpected == Line("stdout", "NoSignatures", ArgvAll[2], 0)

\* C7 as stated: over a document that opens and has no signature fields,
\* report mode prints the 'does not contain any signatures' message and
\* exits with status 2, and validateSignature is never called.
C7_Original ==
    ReportOfEmptyDocument =>
        exitStatus = 2 /\ HasLine(NoSignaturesExpected) /\ sigInfos = <<>>

\* C7 as amended: this is so when the input file is the only positional
\* argument; with more than one the run is a usage error, status 99,
\* without the message.  validateSignature is called in neither case.
C7_Amended ==
    ReportOfEmptyDocument =>
        /\ sigInfos = <<>>
        /\ IF argc = 2
             THEN exitStatus = 2 /\ out = <<NoSignaturesExpected>>
             ELSE exitStatus = 99 /\ out = print_version_usage(TRUE)

C7_Witness ==
    ReportOfEmptyDocument /\ argc = 2 /\ exitStatus = 2
    /\ HasLine(NoSignaturesExpected)

\* the run has entered the dump loop
InDumpMode ==
    /\ NoEarlyMode /\ ~addNewSignature /\ signatureNumber <= 0
    /\ dumpSignatures /\ docOk /\ argc = 2 /\ sigCount >= 1
    /\ pc \in {"dump", "done"}

\* indices (0-based) of the fields without signature content
Contentless == {k \in 0..(sigCount - 1) : ~signatures[k + 1].sig}

Smallest(S) == CHOOSE x \in S : \A y \in S : x <= y

\* the indices 0 .. n-1 in order
FirstIndices(n) == [k \in 1..n |-> k - 1]

\* C8: dump mode writes the fields in index order and stops at the
\* smallest index k without signature content: exactly the fields below k
\* are written and the status is 3; without such a k all are written and
\* the status is 0.
C8_DumpStopsAtFirstGap ==
    InDumpMode =>
        /\ pc = "dump" => written = FirstIndices(i)
        /\ Done => IF Contentless = {}
                     THEN written = FirstIndices(sigCount) /\ exitStatus = 0
                     ELSE /\ written = FirstIndices(Smallest(Contentless))
                          /\ exitStatus = 3

C8_Witness ==
    /\ Done /\ InDumpMode /\ sigCount = 2
    /\ signatures[1].sig /\ ~signatures[2].sig
    /\ written = <<0>> /\ exitStatus = 3

\* the character codes of 0-9 and A-F
HexSymbols == (48..57) \cup (65..70)

\* the symbols the generation loop can append, over every generator state
PossibleSymbols == {HexChar(distrib(gen)) : gen \in 0..15}

\* C9 as stated: a generated field name passed to PDFDoc::sign has 32
\* characters and the symbols possible at each position are exactly the 16
\* hexadecimal symbols, '0' included.
C9_Original ==
    (generated /\ signCalls # <<>>) =>
        LET name == signCalls[1].name
        IN  /\ signCalls[1].op = "PDFDoc::sign"
            /\ Len(name) = 32
            /\ \A k \in 1..Len(name) : name[k] \in HexSymbols
            /\ PossibleSymbols = HexSymbols

\* C10: getAvailableSigningCertificates ends in one of three ways.  Asked
\* without a password to give: 'Password is needed', error, empty list (and
\* -list-nicks exits with 2).  Asked again after the password was given:
\* 'Password was not accepted', error, empty list.  Otherwise: no error and
\* the store's list.  Never both messages; the password is handed out at
\* most once.
C10_StoreOutcomes ==
    /\ passwordsHanded <= 1
    /\ ~(Printed("PasswordNeeded") /\ Printed("PasswordNotAccepted"))
    /\ certsCalls >= 1 =>
          IF asks >= 1 /\ nssPassword = ""
            THEN /\ getCertsError = "true" /\ vCerts = <<>>
                 /\ Printed("PasswordNeeded")
                 /\ (listNicknames /\ Done) => exitStatus = 2
          ELSE IF asks >= 2
            THEN /\ getCertsError = "true" /\ vCerts = <<>>
                 /\ Printed("PasswordNotAccepted")
                 /\ passwordsHanded = 1
          ELSE /\ getCertsError = "false" /\ vCerts = storeList
               /\ ~Printed("PasswordNeeded") /\ ~Printed("PasswordNotAccepted")

C10_Witness ==
    /\ Done /\ listNicknames /\ nssPassword = "" /\ asks >= 1
    /\ Printed("PasswordNeeded") /\ vCerts = <<>> /\ storeList # <<>>
    /\ exitStatus = 2

\* C11: a run invokes at most one engine signing operation (never both,
\* never one twice); the run ends with the invocation, with status 0 when
\* the operation reported success and 3 when it reported failure; a run
\* that invoked none exits with status 3 only when a dump failed.
C11_OneSigningOperation ==
    /\ Len(signCalls) <= 1
    /\ signCalls # <<>> =>
          /\ Done
          /\ exitStatus = IF signCalls[1].success THEN 0 ELSE 3
          /\ signCalls[1].op = IF addNewSignature
                                 THEN "PDFDoc::sign"
                                 ELSE "FormWidgetSignature::signDocument"
    /\ (Done /\ signCalls = <<>> /\ exitStatus = 3) =>
          /\ InDumpMode
          /\ Contentless # {}
          /\ HasLine(Line("stdout", "CannotDump", "", Smallest(Contentless)))

C11_Witness ==
    /\ Done /\ Len(signCalls) = 1
    /\ signCalls[1].op = "FormWidgetSignature::signDocument"
    /\ ~signCalls[1].success
    /\ exitStatus = 3

=============================================================================
